---- MODULE Spec2Model ----
(***************************************************************************)
(* A model of AnomalyDetector.py: the GMM and DeepLearning strategies,     *)
(* the factory that builds them, and the files of the working directory    *)
(* they persist to and load from.                                          *)
(*                                                                         *)
(* One detector instance is live at a time (the factory replaces it); the  *)
(* files of the working directory outlive the instances.  Every method is  *)
(* a function from a frame (the instance, the files and what the call has  *)
(* printed, called and raised so far) to a frame, composed in the order    *)
(* the method's statements run; an action applies one method to the        *)
(* current state.                                                          *)
(*                                                                         *)
(* The numerical libraries are abstracted over the integers: a sample is   *)
(* one integer feature, a fitted model holds the mean of its training      *)
(* samples, a GMM log-likelihood is minus the distance to that mean, a     *)
(* reconstruction is that mean, and mean and standard deviation round      *)
(* down.                                                                   *)
(***************************************************************************)
EXTENDS Integers, Sequences, FiniteSets, TLC

\* Longest sample array passed to determine_threshold, train_model and
\* detect_anomalies.
MaxLen == 2

\* The feature values of a sample.
Vals == {0, 1}

\* The detectors one run constructs, one after the other: the files the first
\* leaves behind are what the second finds.  The factory is called until the
\* second is made.
Detectors == {"first", "second"}

\* The non-empty sample arrays.
Arrays == UNION {[1..n -> Vals] : n \in 1..MaxLen}

\* The detector-type tags and dataset names handed to the factory.
DetectorTypes == {"classic", "deep_learning", "gmm"}
DatasetNames == {"location", "velocity", "speed"}

ScalerFiles == {"location_scaler.pkl", "velocity_scaler.pkl"}
GMMFiles == {"GMM_location.pkl", "GMM_velocity.pkl"}
DLFiles == {"DL_location_model.h5", "DL_velocity_model.h5"}
FileNames == ScalerFiles \cup GMMFiles \cup DLFiles

VARIABLES
    det,        \* the live detector instance (kind "none" before the first)
    files,      \* the working directory: file name -> content
    op,         \* the last operation called and its factory arguments
    out,        \* what the last operation printed, in order
    trace,      \* the calls the last operation made, in order
    raised,     \* the exception the last operation raised to its caller
    ret,        \* the value the last operation returned
    scores,     \* the per-sample statistic the last detect_anomalies computed
    verdicts,   \* the per-sample verdicts the last detect_anomalies printed
    made,       \* how many detector instances have been constructed
    thresholdRan, \* history: determine_threshold has completed on this instance
    saved       \* history: file name -> the in-memory model last saved under it

vars == <<det, files, op, out, trace, raised, ret, scores, verdicts,
          made, thresholdRan, saved>>

----------------------------------------------------------------------------
\* Python values

\* self.model = None
NoneModel == [tag |-> "None", fitted |-> FALSE, c |-> 0]

\* self.threshold = None
NoneThreshold == [isNone |-> TRUE, v |-> 0]

Threshold(x) == [isNone |-> FALSE, v |-> x]

\* self.scaler is assigned only by load_scaler: before that the attribute
\* does not exist.
NoScaler == [tag |-> "absent", offset |-> 0]

\* No instance has been constructed yet.
NoDetector ==
    [kind |-> "none", threshold |-> NoneThreshold, model |-> NoneModel,
     model_name |-> "", scaler_name |-> "", scaler |-> NoScaler]

NoFile == [st |-> "missing", fmt |-> "", payload |-> NoneModel]
CorruptFile == [st |-> "corrupt", fmt |-> "", payload |-> NoneModel]

\* The scaler an external fitter has persisted.
PersistedScaler == [tag |-> "Scaler", offset |-> 0]

----------------------------------------------------------------------------
\* Arithmetic of numpy, over the integers

RECURSIVE Sum(_)
Sum(s) == IF s = <<>> THEN 0 ELSE Head(s) + Sum(Tail(s))

Abs(x) == IF x < 0 THEN 0 - x ELSE x

Min(s) == CHOOSE m \in {s[i] : i \in 1..Len(s)} : \A i \in 1..Len(s) : m <= s[i]

\* np.mean, rounded down
Mean(s) == Sum(s) \div Len(s)

\* the integer square root
ISqrt(n) == CHOOSE r \in 0..n : r * r <= n /\ (r + 1) * (r + 1) > n

\* np.std, rounded down
Std(s) == ISqrt(Sum([i \in 1..Len(s) |-> (s[i] - Mean(s)) * (s[i] - Mean(s))]) \div Len(s))

----------------------------------------------------------------------------
\* Frames: the state a method works on

Emit(s, msg) == [s EXCEPT !.out = Append(@, msg)]
Call(s, step) == [s EXCEPT !.trace = Append(@, step)]
Raise(s, e) == [s EXCEPT !.raised = e]

\* The frame a call starts from.
Start ==
    [det |-> det, files |-> files, out |-> <<>>, trace |-> <<>>,
     raised |-> "none", ret |-> "None", scores |-> <<>>, verdicts |-> <<>>,
     thresholdRan |-> thresholdRan, saved |-> saved]

----------------------------------------------------------------------------
\* Persistence formats

\* joblib.dump: the pickled object in a .pkl container
JoblibDump(obj) == [st |-> "ok", fmt |-> "pkl", payload |-> [pickled |-> obj]]

\* joblib.load of a readable .pkl container
JoblibLoad(f) == f.payload.pickled

\* keras Model.save to .h5: architecture, weights and, when compiled, the
\* optimizer state
KerasSave(m) ==
    [st |-> "ok", fmt |-> "h5",
     payload |-> [architecture |-> m.tag, weights |-> m.c, optimizer |-> m.fitted]]

\* keras load_model of a readable .h5 bundle
KerasLoad_fresh_weights(f) ==
    [tag |-> f.payload.architecture, fitted |-> f.payload.optimizer, c |-> 0]

KerasLoad(f) ==
    [tag |-> f.payload.architecture, fitted |-> f.payload.optimizer,
     c |-> f.payload.weights]

----------------------------------------------------------------------------
\* The libraries' models

\* GaussianMixture(n_components): not fitted yet
GaussianMixture == [tag |-> "GaussianMixture", fitted |-> FALSE, c |-> 0]

\* GaussianMixture.fit(X): the fitted density is centred on the mean of X
GaussianMixtureFit(m, X) == [m EXCEPT !.fitted = TRUE, !.c = Mean(X)]

\* GaussianMixture.score_samples(X): the log-likelihood of each sample, higher
\* for the more typical
ScoreSamples(m, X) == [i \in 1..Len(X) |-> 0 - Abs(X[i] - m.c)]

\* tf.keras.Sequential([...]): the autoencoder, not compiled or fitted yet.
\* Its initial weights are random; whatever they are, they are one value of
\* the reconstruction, and the model takes the same one for every build.
Sequential == [tag |-> "Sequential", fitted |-> FALSE, c |-> 0]

\* Model.compile and Model.fit(X, X): the weights reconstruct the mean of X
SequentialFit(m, X) == [m EXCEPT !.fitted = TRUE, !.c = Mean(X)]

\* Model.predict(X): the reconstruction of each sample
Predict(m, X) == [i \in 1..Len(X) |-> m.c]

\* tf.keras.losses.mae, per sample
MAE(X, R) == [i \in 1..Len(X) |-> Abs(X[i] - R[i])]

\* tf.keras.losses.mean_squared_error, per sample
MSE(X, R) == [i \in 1..Len(X) |-> (X[i] - R[i]) * (X[i] - R[i])]

\* scaler.fit_transform(X): the scaler is fitted again, on X, and X is shifted
\* by the fitted offset
ScalerFit(sc, X) == [sc EXCEPT !.offset = Min(X)]
ScalerTransform(sc, X) == [i \in 1..Len(X) |-> X[i] - sc.offset]

----------------------------------------------------------------------------
\* class GMM

GMM_init(dataset_name) ==
    [kind |-> "GMM",
     threshold |-> NoneThreshold,
     model |-> NoneModel,
     model_name |-> IF dataset_name = "location" THEN "GMM_location.pkl"
                    ELSE "GMM_velocity.pkl",
     scaler_name |-> IF dataset_name = "location" THEN "location_scaler.pkl"
                     ELSE "velocity_scaler.pkl",
     scaler |-> NoScaler]

GMM_load_scaler(s) ==
    LET f == s.files[s.det.scaler_name]
        t == Call(Call(s, "load_scaler"), "joblib.load")
    IN  CASE f.st = "missing" -> Emit(t, "Scaler file not found.")
          [] f.st = "corrupt" ->
                Emit(t, "An error occurred while loading the scaler:")
          [] OTHER ->
                Emit([t EXCEPT !.det.scaler = JoblibLoad(f)],
                     "Scaler loaded successfully.")

GMM_save_model(s) ==
    LET t == Call(Call(s, "save_model"), "joblib.dump")
    IN  [t EXCEPT !.files[s.det.model_name] = JoblibDump(s.det.model),
                  !.saved[s.det.model_name] = s.det.model]

GMM_determine_threshold(s, X_train) ==
    LET t == Call(Call(s, "determine_threshold"), "score_samples")
        sc == ScoreSamples(s.det.model, X_train)
    IN  CASE s.det.model = NoneModel -> Raise(t, "AttributeError")
          [] ~s.det.model.fitted -> Raise(t, "NotFittedError")
          [] OTHER ->
                [t EXCEPT !.det.threshold = Threshold(Mean(sc) + Std(sc)),
                          !.thresholdRan = TRUE]

GMM_build_model(s) ==
    [Call(s, "build_model") EXCEPT !.det.model = GaussianMixture]

GMM_train_model_save_first(s, X_train) ==
    LET t0 == Emit(Call(s, "train_model"), "Training model...")
    IN  IF s.det.model = NoneModel THEN Raise(Call(t0, "fit"), "AttributeError")
        ELSE LET t1 == GMM_save_model(t0)
                 t2 == [Call(t1, "fit") EXCEPT
                           !.det.model = GaussianMixtureFit(@, X_train)]
                 t3 == GMM_determine_threshold(t2, X_train)
             IN  IF t3.raised # "none" THEN t3 ELSE Emit(t3, "GMM threshold:")

GMM_train_model(s, X_train) ==
    LET t0 == Emit(Call(s, "train_model"), "Training model...")
        t1 == Call(t0, "fit")
    IN  IF s.det.model = NoneModel THEN Raise(t1, "AttributeError")
        ELSE LET t2 == [t1 EXCEPT !.det.model = GaussianMixtureFit(@, X_train)]
                 t3 == GMM_save_model(t2)
                 t4 == GMM_determine_threshold(t3, X_train)
             IN  IF t4.raised # "none" THEN t4 ELSE Emit(t4, "GMM threshold:")

GMM_load_model_uncaught(s) ==
    LET f == s.files[s.det.model_name]
        t == Call(Call(s, "load_model"), "joblib.load")
    IN  CASE f.st = "missing" -> Emit(t, "GMM model file not found.")
          [] f.st = "corrupt" -> Raise(t, "UnpicklingError")
          [] OTHER ->
                Emit([t EXCEPT !.det.model = JoblibLoad(f)],
                     "GMM model loaded successfully.")

GMM_load_model_with_threshold(s) ==
    LET f == s.files[s.det.model_name]
        t == Call(Call(s, "load_model"), "joblib.load")
    IN  CASE f.st = "missing" -> Emit(t, "GMM model file not found.")
          [] f.st = "corrupt" ->
                Emit(t, "An error occurred while loading the GMM model:")
          [] OTHER ->
                Emit([t EXCEPT !.det.model = JoblibLoad(f),
                               !.det.threshold = Threshold(0)],
                     "GMM model loaded successfully.")

GMM_load_model(s) ==
    LET f == s.files[s.det.model_name]
        t == Call(Call(s, "load_model"), "joblib.load")
    IN  CASE f.st = "missing" -> Emit(t, "GMM model file not found.")
          [] f.st = "corrupt" ->
                Emit(t, "An error occurred while loading the GMM model:")
          [] OTHER ->
                Emit([t EXCEPT !.det.model = JoblibLoad(f)],
                     "GMM model loaded successfully.")

\* detect_anomalies: if self.model is None, load it; else keep it
GMM_lazy_load_always(s) ==
    GMM_load_model(Emit(s, "Model not trained. Trying to load the model..."))

GMM_lazy_load(s) ==
    IF s.det.model = NoneModel
    THEN GMM_load_model(Emit(s, "Model not trained. Trying to load the model..."))
    ELSE s

\* the loop of detect_anomalies: one verdict per score, in index order
GMM_classify_ge(sc, threshold) ==
    [i \in 1..Len(sc) |->
        [index |-> i - 1,
         label |-> IF sc[i] >= threshold THEN "Normal" ELSE "Abnormal"]]

GMM_classify(sc, threshold) ==
    [i \in 1..Len(sc) |->
        [index |-> i - 1,
         label |-> IF sc[i] > threshold THEN "Normal" ELSE "Abnormal"]]

GMM_detect_anomalies(s, X) ==
    LET t0 == Call(s, "detect_anomalies")
        t1 == Call(GMM_load_scaler(t0), "fit_transform")
    IN  IF t1.det.scaler = NoScaler THEN Raise(t1, "AttributeError")
        ELSE
        LET fitted == ScalerFit(t1.det.scaler, X)
            Xs == ScalerTransform(fitted, X)
            t2 == [t1 EXCEPT !.det.scaler = fitted]
            t3 == GMM_lazy_load(t2)
            t4 == Call(t3, "score_samples")
            sc == ScoreSamples(t3.det.model, Xs)
        IN  CASE t3.det.model = NoneModel -> Raise(t4, "AttributeError")
              [] ~t3.det.model.fitted -> Raise(t4, "NotFittedError")
              [] t3.det.threshold.isNone ->
                    Raise([Call(t4, "classify") EXCEPT !.scores = sc], "TypeError")
              [] OTHER ->
                    [Call(t4, "classify") EXCEPT
                        !.scores = sc,
                        !.verdicts = GMM_classify(sc, t3.det.threshold.v)]

----------------------------------------------------------------------------
\* class DeepLearning

DeepLearning_init_location_default(dataset_name) ==
    [kind |-> "DeepLearning",
     threshold |-> NoneThreshold,
     model |-> NoneModel,
     model_name |-> IF dataset_name = "velocity" THEN "DL_velocity_model.h5"
                    ELSE "DL_location_model.h5",
     scaler_name |-> IF dataset_name = "velocity" THEN "velocity_scaler.pkl"
                     ELSE "location_scaler.pkl",
     scaler |-> NoScaler]

DeepLearning_init(dataset_name) ==
    [kind |-> "DeepLearning",
     threshold |-> NoneThreshold,
     model |-> NoneModel,
     model_name |-> IF dataset_name = "location" THEN "DL_location_model.h5"
                    ELSE "DL_velocity_model.h5",
     scaler_name |-> IF dataset_name = "location" THEN "location_scaler.pkl"
                     ELSE "velocity_scaler.pkl",
     scaler |-> NoScaler]

DeepLearning_load_scaler(s) ==
    LET f == s.files[s.det.scaler_name]
        t == Call(Call(s, "load_scaler"), "joblib.load")
    IN  CASE f.st = "missing" -> Emit(t, "Scaler file not found.")
          [] f.st = "corrupt" ->
                Emit(t, "An error occurred while loading the scaler:")
          [] OTHER ->
                Emit([t EXCEPT !.det.scaler = JoblibLoad(f)],
                     "Scaler loaded successfully.")

DeepLearning_save_model(s) ==
    LET t == Call(Call(s, "save_model"), "model.save")
    IN  IF s.det.model = NoneModel THEN Raise(t, "AttributeError")
        ELSE [t EXCEPT !.files[s.det.model_name] = KerasSave(s.det.model),
                       !.saved[s.det.model_name] = s.det.model]

DeepLearning_determine_threshold(s, X_train) ==
    LET t == Call(Call(s, "determine_threshold"), "predict")
        errors == MAE(X_train, Predict(s.det.model, X_train))
    IN  IF s.det.model = NoneModel THEN Raise(t, "AttributeError")
        ELSE [t EXCEPT !.det.threshold = Threshold(Mean(errors) + Std(errors)),
                       !.thresholdRan = TRUE]

DeepLearning_build_model(s) ==
    [Call(s, "build_model") EXCEPT !.det.model = Sequential]

DeepLearning_train_model(s, X_train) ==
    LET t0 == Call(Call(s, "train_model"), "compile")
    IN  IF s.det.model = NoneModel THEN Raise(t0, "AttributeError")
        ELSE LET t1 == Call(Emit(t0, "Training model..."), "fit")
                 t2 == [t1 EXCEPT !.det.model = SequentialFit(@, X_train)]
                 t3 == DeepLearning_save_model(t2)
                 t4 == IF t3.raised # "none" THEN t3
                       ELSE DeepLearning_determine_threshold(t3, X_train)
             IN  IF t4.raised # "none" THEN t4
                 ELSE [Emit(t4, "Deep learning threshold:") EXCEPT !.ret = "history"]

DeepLearning_load_model(s) ==
    LET f == s.files[s.det.model_name]
        t == Call(Call(s, "load_model"), "keras.load_model")
    IN  CASE f.st = "missing" -> Emit(t, "Deep Learning model file not found.")
          [] f.st = "corrupt" ->
                Emit(t, "An error occurred while loading the Deep Learning model:")
          [] OTHER ->
                Emit([t EXCEPT !.det.model = KerasLoad(f)],
                     "Deep Learning model loaded successfully.")

\* detect_anomalies: if self.model is None, load it; else keep it
DeepLearning_lazy_load(s) ==
    IF s.det.model = NoneModel
    THEN DeepLearning_load_model(
             Emit(s, "Model not trained. Trying to load the model..."))
    ELSE s

\* the loop of detect_anomalies: one verdict per error, in index order
DeepLearning_classify_inverted(errors, threshold) ==
    [i \in 1..Len(errors) |->
        [index |-> i - 1,
         label |-> IF errors[i] > threshold THEN "Normal" ELSE "Abnormal"]]

DeepLearning_classify(errors, threshold) ==
    [i \in 1..Len(errors) |->
        [index |-> i - 1,
         label |-> IF errors[i] > threshold THEN "Abnormal" ELSE "Normal"]]

\* A tensor compared with None raises; which exception depends on the
\* library version, so the caller may see either: e is the one raised.
DeepLearning_detect_anomalies(s, X, e) ==
    LET t0 == Call(s, "detect_anomalies")
        t1 == Call(DeepLearning_load_scaler(t0), "fit_transform")
    IN  IF t1.det.scaler = NoScaler THEN Raise(t1, "AttributeError")
        ELSE
        LET fitted == ScalerFit(t1.det.scaler, X)
            Xs == ScalerTransform(fitted, X)
            t2 == [t1 EXCEPT !.det.scaler = fitted]
            t3 == DeepLearning_lazy_load(t2)
            t4 == Call(t3, "predict")
            errors == MSE(Xs, Predict(t3.det.model, Xs))
        IN  CASE t3.det.model = NoneModel -> Raise(t4, "AttributeError")
              [] t3.det.threshold.isNone ->
                    Raise([Call(t4, "classify") EXCEPT !.scores = errors], e)
              [] OTHER ->
                    [Call(t4, "classify") EXCEPT
                        !.scores = errors,
                        !.verdicts = DeepLearning_classify(errors, t3.det.threshold.v)]

----------------------------------------------------------------------------
\* class AnomalyDetectorFactory

\* A new instance: no determine_threshold has run on it.
Construct(s, d) == [s EXCEPT !.det = d, !.thresholdRan = FALSE, !.ret = d.kind]

anomaly_detector_default_classic(s, detector_type, dataset_name) ==
    LET t == Call(s, "anomaly_detector")
    IN  CASE detector_type = "deep_learning" ->
                Construct(t, DeepLearning_init(dataset_name))
          [] OTHER -> Construct(t, GMM_init(dataset_name))

anomaly_detector(s, detector_type, dataset_name) ==
    LET t == Call(s, "anomaly_detector")
    IN  CASE detector_type = "classic" -> Construct(t, GMM_init(dataset_name))
          [] detector_type = "deep_learning" ->
                Construct(t, DeepLearning_init(dataset_name))
          [] OTHER -> Raise(t, "ValueError")

----------------------------------------------------------------------------
\* The state machine

\* The operation record of a method call, and of a factory call.
Method(name) == [name |-> name, detector_type |-> "-", dataset_name |-> "-"]
FactoryCall(detector_type, dataset_name) ==
    [name |-> "anomaly_detector", detector_type |-> detector_type,
     dataset_name |-> dataset_name]

\* The call o has run to the frame s.
Commit(o, frame) ==
    \E s \in {frame} :
    /\ op' = o
    /\ det' = s.det
    /\ files' = s.files
    /\ out' = s.out
    /\ trace' = s.trace
    /\ raised' = s.raised
    /\ ret' = s.ret
    /\ scores' = s.scores
    /\ verdicts' = s.verdicts
    /\ thresholdRan' = s.thresholdRan
    /\ saved' = s.saved
    /\ made' = IF o.name = "anomaly_detector" /\ s.raised = "none" THEN made + 1 ELSE made

Unsaved == [tag |-> "unsaved", fitted |-> FALSE, c |-> 0]

\* A working directory before any detector is made: the scaler files are
\* absent, unreadable or the ones the external fitter wrote; the model files
\* are absent or unreadable.  A detector touches only the two files of its own
\* dataset, so the files of one role start alike.
Init ==
    /\ det = NoDetector
    /\ \E sf \in {NoFile, CorruptFile, JoblibDump(PersistedScaler)},
          mf \in {NoFile, CorruptFile} :
            files = [n \in FileNames |-> IF n \in ScalerFiles THEN sf ELSE mf]
    /\ made = 0
    /\ op = Method("init")
    /\ out = <<>>
    /\ trace = <<>>
    /\ raised = "none"
    /\ ret = "None"
    /\ scores = <<>>
    /\ verdicts = <<>>
    /\ thresholdRan = FALSE
    /\ saved = [n \in FileNames |-> Unsaved]

Factory ==
    /\ made < Cardinality(Detectors)
    /\ \E detector_type \in DetectorTypes, dataset_name \in DatasetNames :
        Commit(FactoryCall(detector_type, dataset_name),
               anomaly_detector(Start, detector_type, dataset_name))

GMMLoadScaler ==
    /\ det.kind = "GMM"
    /\ Commit(Method("load_scaler"), GMM_load_scaler(Start))

GMMSaveModel ==
    /\ det.kind = "GMM"
    /\ Commit(Method("save_model"), GMM_save_model(Start))

GMMDetermineThreshold ==
    /\ det.kind = "GMM"
    /\ \E X \in Arrays :
        Commit(Method("determine_threshold"), GMM_determine_threshold(Start, X))

GMMBuildModel ==
    /\ det.kind = "GMM"
    /\ Commit(Method("build_model"), GMM_build_model(Start))

GMMTrainModel ==
    /\ det.kind = "GMM"
    /\ \E X \in Arrays : Commit(Method("train_model"), GMM_train_model(Start, X))

GMMLoadModel ==
    /\ det.kind = "GMM"
    /\ Commit(Method("load_model"), GMM_load_model(Start))

GMMDetectAnomalies ==
    /\ det.kind = "GMM"
    /\ \E X \in Arrays :
        Commit(Method("detect_anomalies"), GMM_detect_anomalies(Start, X))

DLLoadScaler ==
    /\ det.kind = "DeepLearning"
    /\ Commit(Method("load_scaler"), DeepLearning_load_scaler(Start))

DLSaveModel ==
    /\ det.kind = "DeepLearning"
    /\ Commit(Method("save_model"), DeepLearning_save_model(Start))

DLDetermineThreshold ==
    /\ det.kind = "DeepLearning"
    /\ \E X \in Arrays :
        Commit(Method("determine_threshold"),
               DeepLearning_determine_threshold(Start, X))

DLBuildModel ==
    /\ det.kind = "DeepLearning"
    /\ Commit(Method("build_model"), DeepLearning_build_model(Start))

DLTrainModel ==
    /\ det.kind = "DeepLearning"
    /\ \E X \in Arrays :
        Commit(Method("train_model"), DeepLearning_train_model(Start, X))

DLLoadModel ==
    /\ det.kind = "DeepLearning"
    /\ Commit(Method("load_model"), DeepLearning_load_model(Start))

DLDetectAnomalies ==
    /\ det.kind = "DeepLearning"
    /\ \E X \in Arrays,
          e \in IF det.threshold.isNone THEN {"TypeError", "ValueError"}
                ELSE {"ValueError"} :
        Commit(Method("detect_anomalies"),
               DeepLearning_detect_anomalies(Start, X, e))

Next ==
    \/ Factory
    \/ GMMDetectAnomalies
    \/ DLDetectAnomalies
    \/ GMMLoadScaler
    \/ GMMLoadModel
    \/ GMMBuildModel
    \/ GMMTrainModel
    \/ GMMSaveModel
    \/ GMMDetermineThreshold
    \/ DLLoadScaler
    \/ DLLoadModel
    \/ DLBuildModel
    \/ DLTrainModel
    \/ DLSaveModel
    \/ DLDetermineThreshold

Spec == Init /\ [][Next]_vars

----------------------------------------------------------------------------
\* Vocabulary of the properties

ValidTypes == {"classic", "deep_learning"}

\* The calls that read or write a persisted file.
FileCalls == {"joblib.load", "joblib.dump", "model.save", "keras.load_model"}

\* The calls of tr that are in S, in order.
Only(tr, S) == SelectSeq(tr, LAMBDA c : c \in S)

Called(tr, c) == \E i \in 1..Len(tr) : tr[i] = c

\* The messages a failed load prints.
ScalerDiagnostics ==
    {"Scaler file not found.", "An error occurred while loading the scaler:"}
ModelDiagnostics ==
    {"GMM model file not found.",
     "An error occurred while loading the GMM model:",
     "Deep Learning model file not found.",
     "An error occurred while loading the Deep Learning model:"}

\* The table of persisted artifacts: the scaler and model file of a dataset.
TableScaler(dataset_name) ==
    IF dataset_name = "location" THEN "location_scaler.pkl" ELSE "velocity_scaler.pkl"
TableModel(kind, dataset_name) ==
    CASE kind = "GMM" /\ dataset_name = "location" -> "GMM_location.pkl"
      [] kind = "GMM" /\ dataset_name # "location" -> "GMM_velocity.pkl"
      [] kind = "DeepLearning" /\ dataset_name = "location" -> "DL_location_model.h5"
      [] OTHER -> "DL_velocity_model.h5"

\* The per-sample statistic a model gives on X, by strategy.
Statistic(kind, m, X) ==
    IF kind = "GMM" THEN ScoreSamples(m, X) ELSE MSE(X, Predict(m, X))

----------------------------------------------------------------------------
\* C1: a factory call with a detector type other than 'classic' or
\* 'deep_learning' raises ValueError whatever the dataset name, constructs no
\* instance (the live instance and the count of constructed ones stay as they
\* were, nothing is returned) and reads or writes no file.
C1_InvalidTypeRaises ==
    [][(op'.name = "anomaly_detector" /\ op'.detector_type \notin ValidTypes)
        => /\ raised' = "ValueError"
           /\ det' = det
           /\ made' = made
           /\ ret' = "None"
           /\ files' = files
           /\ Only(trace', FileCalls) = <<>>]_vars

\* An invalid type was refused while a detector made earlier is live.
C1_Witness ==
    /\ op.name = "anomaly_detector"
    /\ op.detector_type \notin ValidTypes
    /\ raised = "ValueError"
    /\ det.kind # "none"
    /\ det.model # NoneModel

\* C2: 'classic' gives a GMM and 'deep_learning' a DeepLearning instance,
\* fresh (model and threshold unset, no scaler), with the file names of the
\* table: the 'location' names for dataset 'location' and the 'velocity' names
\* for every other dataset name; no error is raised.
C2_FactoryTable ==
    (op.name = "anomaly_detector" /\ op.detector_type \in ValidTypes)
    => /\ raised = "none"
       /\ det.kind = (IF op.detector_type = "classic" THEN "GMM" ELSE "DeepLearning")
       /\ ret = det.kind
       /\ det.model = NoneModel
       /\ det.threshold = NoneThreshold
       /\ det.scaler = NoScaler
       /\ det.scaler_name = TableScaler(op.dataset_name)
       /\ det.model_name = TableModel(det.kind, op.dataset_name)
       /\ ~thresholdRan

\* A DeepLearning detector was made for an unrecognised dataset name, after
\* an earlier detector.
C2_Witness ==
    /\ op.name = "anomaly_detector"
    /\ op.detector_type = "deep_learning"
    /\ op.dataset_name = "speed"
    /\ det.model_name = "DL_velocity_model.h5"
    /\ made = 2

\* C3 as stated: after a load_scaler or load_model that found its file
\* missing or unreadable, the scaler (the model) is unset.
C3_FailedLoadLeavesUnset ==
    /\ (op.name = "load_scaler" /\ files[det.scaler_name].st # "ok")
        => det.scaler = NoScaler
    /\ (op.name = "load_model" /\ files[det.model_name].st # "ok")
        => det.model = NoneModel

\* C3 as amended: a load_scaler or load_model that finds its file missing or
\* unreadable returns without raising, prints one diagnostic, and leaves the
\* scaler (the model) as it was before the call, unset if it was unset, and
\* every other field of the instance and every file unchanged.
C3_FailedLoadLeavesUnchanged ==
    [][/\ (op'.name = "load_scaler" /\ files[det.scaler_name].st # "ok")
            => /\ raised' = "none"
               /\ Len(out') = 1 /\ out'[1] \in ScalerDiagnostics
               /\ det' = det
               /\ files' = files
       /\ (op'.name = "load_model" /\ files[det.model_name].st # "ok")
            => /\ raised' = "none"
               /\ Len(out') = 1 /\ out'[1] \in ModelDiagnostics
               /\ det' = det
               /\ files' = files]_vars

\* load_model found an unreadable file while a model was held.
C3_Witness ==
    /\ op.name = "load_model"
    /\ files[det.model_name].st = "corrupt"
    /\ out = <<"An error occurred while loading the GMM model:">>
    /\ det.model # NoneModel

\* C4 as stated: the only failure an operation raises to its caller is the
\* factory's ValueError for an unrecognised detector type.
C4_OnlyFactoryRaises ==
    raised # "none"
    => /\ op.name = "anomaly_detector"
       /\ op.detector_type \notin ValidTypes
       /\ raised = "ValueError"

C7_GMMVerdicts ==
    (op.name = "detect_anomalies" /\ det.kind = "GMM" /\ raised = "none")
    => /\ ~det.threshold.isNone
       /\ Len(scores) > 0
       /\ Len(verdicts) = Len(scores)
       /\ \A i \in 1..Len(scores) :
            /\ verdicts[i].index = i - 1
            /\ verdicts[i].label \in {"Normal", "Abnormal"}
            /\ verdicts[i].label = "Normal" <=> scores[i] > det.threshold.v

\* One sample scored above the threshold and one exactly at it.
C7_Witness ==
    /\ op.name = "detect_anomalies" /\ det.kind = "GMM" /\ raised = "none"
    /\ \E i, j \in 1..Len(scores) :
        /\ scores[i] > det.threshold.v /\ verdicts[i].label = "Normal"
        /\ scores[j] = det.threshold.v /\ verdicts[j].label = "Abnormal"

\* C8: a DeepLearning detect_anomalies that classifies prints one verdict per
\* sample, in index order: 'Abnormal' exactly when the error is strictly
\* greater than the threshold, 'Normal' otherwise, the inverse of GMM's rule.
C8_DLVerdicts ==
    (op.name = "detect_anomalies" /\ det.kind = "DeepLearning" /\ raised = "none")
    => /\ ~det.threshold.isNone
       /\ Len(scores) > 0
       /\ Len(verdicts) = Len(scores)
       /\ \A i \in 1..Len(scores) :
            /\ verdicts[i].index = i - 1
            /\ verdicts[i].label \in {"Normal", "Abnormal"}
            /\ verdicts[i].label = "Abnormal" <=> scores[i] > det.threshold.v
            /\ verdicts[i].label
                = (IF GMM_classify(scores, det.threshold.v)[i].label = "Normal"
                   THEN "Abnormal" ELSE "Normal")

\* One sample's error was above the threshold and one exactly at it.
C8_Witness ==
    /\ op.name = "detect_anomalies" /\ det.kind = "DeepLearning"
    /\ raised = "none"
    /\ \E i, j \in 1..Len(scores) :
        /\ scores[i] > det.threshold.v /\ verdicts[i].label = "Abnormal"
        /\ scores[j] = det.threshold.v /\ verdicts[j].label = "Normal"

\* C9: the threshold of the live instance is set only if determine_threshold
\* has run on it; no other operation assigns it.
C9_ThresholdOnlyByDetermine ==
    ~det.threshold.isNone => thresholdRan

\* detect_anomalies loaded the model from its file and reached the
\* classification with the threshold still unset.
C9_Witness ==
    /\ op.name = "detect_anomalies"
    /\ Called(trace, "load_model")
    /\ Called(trace, "classify")
    /\ det.model.fitted
    /\ det.threshold.isNone
    /\ ~thresholdRan

\* C10: detect_anomalies calls load_scaler first, on every call, then
\* fit_transform; past that, it calls load_model exactly when the model was
\* unset, then scores, then classifies; a model held before the call is the
\* model held after it.
C10_DetectOrder ==
    [][op'.name = "detect_anomalies"
        => /\ Len(trace') >= 4
           /\ SubSeq(trace', 1, 4)
                = <<"detect_anomalies", "load_scaler", "joblib.load", "fit_transform">>
           /\ Len(trace') > 4 => (Called(trace', "load_model") <=> det.model = NoneModel)
           /\ det.model # NoneModel => det'.model = det.model
           /\ raised' = "none" =>
                Only(trace', {"load_scaler", "fit_transform", "score_samples",
                              "predict", "classify"})
                    = <<"load_scaler", "fit_transform",
                        IF det.kind = "GMM" THEN "score_samples" ELSE "predict",
                        "classify">>
           /\ \A i, j \in 1..Len(trace') :
                (trace'[i] = "load_model" /\ trace'[j] \in {"score_samples", "predict"})
                    => i < j /\ i > 4]_vars

\* A detection ran to the end on the held model although a different model
\* was persisted under the same name.
C10_Witness ==
    /\ op.name = "detect_anomalies"
    /\ raised = "none"
    /\ ~Called(trace, "load_model")
    /\ files[det.model_name].st = "ok"
    /\ saved[det.model_name] # det.model

====
